---------------------------- MODULE Spec2Model ----------------------------
(***************************************************************************)
(* City of Toronto 2024 financial statements analysis (src/analysis.py).   *)
(*                                                                         *)
(* The script computes its statistics inline, chart by chart.  This module *)
(* models the numeric statements of the charts: the year-over-year         *)
(* percentage changes of charts 2b, 3c and 6c, and the regressions,        *)
(* projections, bands and the CAGR of chart 8.                             *)
(*                                                                         *)
(* Numbers.  The script computes in IEEE doubles; the model computes in    *)
(* exact arithmetic, so that an equality of the model is an equality of    *)
(* the real numbers the doubles approximate:                               *)
(*   - an integer is a sign and a magnitude of base-10^4 limbs (TLC's own  *)
(*     integers are 32 bits wide; the script's sums of squares are not);   *)
(*   - a rational is a numerator and a positive denominator;               *)
(*   - a float is a finite rational, or inf, -inf or nan;                  *)
(*   - a square root np.sqrt(q) is kept as the radicand q (a "surd"), a    *)
(*     power q ** (1/k) as the pair (q, k) (a "root").                     *)
(***************************************************************************)
EXTENDS Integers, Sequences, FiniteSets, TLC

(***************************************************************************)
(* Natural numbers: little-endian limbs, no leading zero limb, zero <<>>.  *)
(***************************************************************************)
Base == 100 * 100

RECURSIVE NatOf(_)
NatOf(k) ==
    IF k = 0 THEN << >> ELSE <<k % Base>> \o NatOf(k \div Base)

RECURSIVE NatAdd(_, _, _)
NatAdd(a, b, c) ==
    IF a = << >> /\ b = << >>
    THEN (IF c = 0 THEN << >> ELSE <<c>>)
    ELSE LET x == IF a = << >> THEN 0 ELSE Head(a)
             y == IF b = << >> THEN 0 ELSE Head(b)
             s == x + y + c
         IN  <<s % Base>> \o NatAdd(IF a = << >> THEN a ELSE Tail(a),
                                    IF b = << >> THEN b ELSE Tail(b),
                                    s \div Base)

RECURSIVE NatTrim(_)
NatTrim(a) ==
    IF a = << >> THEN a
    ELSE IF a[Len(a)] = 0 THEN NatTrim(SubSeq(a, 1, Len(a) - 1))
    ELSE a

\* a - b - w for a >= b + w, limb by limb with the borrow w
RECURSIVE NatSubRaw(_, _, _)
NatSubRaw(a, b, w) ==
    IF a = << >> THEN << >>
    ELSE LET y == IF b = << >> THEN 0 ELSE Head(b)
             d == Head(a) - y - w
         IN  <<(d + Base) % Base>> \o NatSubRaw(Tail(a),
                                                IF b = << >> THEN b ELSE Tail(b),
                                                IF d < 0 THEN 1 ELSE 0)

NatSub(a, b) == NatTrim(NatSubRaw(a, b, 0))

RECURSIVE NatCmpAt(_, _, _)
NatCmpAt(a, b, i) ==
    IF i = 0 THEN 0
    ELSE IF a[i] < b[i] THEN -1
    ELSE IF a[i] > b[i] THEN 1
    ELSE NatCmpAt(a, b, i - 1)

\* -1, 0 or 1 as a < b, a = b or a > b
NatCmp(a, b) ==
    IF Len(a) < Len(b) THEN -1
    ELSE IF Len(a) > Len(b) THEN 1
    ELSE NatCmpAt(a, b, Len(a))

RECURSIVE NatMulLimb(_, _, _)
NatMulLimb(a, k, c) ==
    IF a = << >> THEN (IF c = 0 THEN << >> ELSE <<c>>)
    ELSE LET p == Head(a) * k + c
         IN  <<p % Base>> \o NatMulLimb(Tail(a), k, p \div Base)

NatShift(a) == IF a = << >> THEN a ELSE <<0>> \o a

RECURSIVE NatMul(_, _)
NatMul(a, b) ==
    IF a = << >> \/ b = << >> THEN << >>
    ELSE NatAdd(IF Head(b) = 0 THEN << >> ELSE NatMulLimb(a, Head(b), 0),
                NatShift(NatMul(a, Tail(b))), 0)

(***************************************************************************)
(* Integers.  An integer of magnitude below Base^2 is [big |-> FALSE,      *)
(* v |-> the number]; a larger one is [big |-> TRUE, sg |-> -1 | 1,        *)
(* mg |-> magnitude].  Every operator returns this canonical form.         *)
(***************************************************************************)
Small(k) == [big |-> FALSE, v |-> k]

Abs(k) == IF k < 0 THEN 0 - k ELSE k

Sgn(k) == IF k < 0 THEN -1 ELSE IF k = 0 THEN 0 ELSE 1

IntOf(k) ==
    IF Abs(k) < Base * Base THEN Small(k)
    ELSE [big |-> TRUE, sg |-> Sgn(k), mg |-> NatOf(Abs(k))]

ISign(a) == IF a.big THEN a.sg ELSE Sgn(a.v)

IMag(a) == IF a.big THEN a.mg ELSE NatOf(Abs(a.v))

\* the canonical integer of sign sg and magnitude mg
IMake(sg, mg) ==
    IF Len(mg) = 0 THEN Small(0)
    ELSE IF Len(mg) = 1 THEN Small(sg * mg[1])
    ELSE IF Len(mg) = 2 THEN Small(sg * (mg[1] + Base * mg[2]))
    ELSE [big |-> TRUE, sg |-> sg, mg |-> mg]

INeg(a) == IF a.big THEN [a EXCEPT !.sg = 0 - a.sg] ELSE Small(0 - a.v)

IAdd(a, b) ==
    IF ~a.big /\ ~b.big THEN IntOf(a.v + b.v)
    ELSE IF ISign(a) = 0 THEN b
    ELSE IF ISign(b) = 0 THEN a
    ELSE IF ISign(a) = ISign(b) THEN IMake(ISign(a), NatAdd(IMag(a), IMag(b), 0))
    ELSE LET c == NatCmp(IMag(a), IMag(b))
         IN  IF c = 0 THEN Small(0)
             ELSE IF c > 0 THEN IMake(ISign(a), NatSub(IMag(a), IMag(b)))
             ELSE IMake(ISign(b), NatSub(IMag(b), IMag(a)))

ISub(a, b) == IAdd(a, INeg(b))

\* a product TLC's own integers can hold is computed in them
NativeMax == Base * Base * 21

IMul(a, b) ==
    IF ~a.big /\ ~b.big /\ (b.v = 0 \/ Abs(a.v) <= NativeMax \div Abs(b.v))
    THEN IntOf(a.v * b.v)
    ELSE IF ISign(a) = 0 \/ ISign(b) = 0 THEN Small(0)
    ELSE IMake(ISign(a) * ISign(b), NatMul(IMag(a), IMag(b)))

\* the sign of a - b
ICmp(a, b) ==
    IF ~a.big /\ ~b.big THEN Sgn(a.v - b.v) ELSE ISign(ISub(a, b))

(***************************************************************************)
(* Rationals: [num |-> integer, den |-> integer > 0], not reduced; two     *)
(* rationals are compared by cross-multiplication, never by =.             *)
(***************************************************************************)
Rat(n, d) == [num |-> IntOf(n), den |-> IntOf(d)]

RInt(k) == Rat(k, 1)

\* two fractions over the same denominator keep it
RAdd(a, b) ==
    IF a.den = b.den THEN [num |-> IAdd(a.num, b.num), den |-> a.den]
    ELSE [num |-> IAdd(IMul(a.num, b.den), IMul(b.num, a.den)),
          den |-> IMul(a.den, b.den)]

RNeg(a) == [num |-> INeg(a.num), den |-> a.den]

RSub(a, b) == RAdd(a, RNeg(b))

RMul(a, b) == [num |-> IMul(a.num, b.num), den |-> IMul(a.den, b.den)]

\* a / b for b # 0; two fractions over the same denominator cancel it
RDiv(a, b) ==
    IF a.den = b.den
    THEN [num |-> IMul(a.num, Small(ISign(b.num))),
          den |-> IMul(b.num, Small(ISign(b.num)))]
    ELSE [num |-> IMul(IMul(a.num, b.den), Small(ISign(b.num))),
          den |-> IMul(a.den, IMul(b.num, Small(ISign(b.num))))]

RSign(a) == ISign(a.num)

\* the sign of a - b
RCmp(a, b) == ICmp(IMul(a.num, b.den), IMul(b.num, a.den))

REq(a, b) == RCmp(a, b) = 0

RLt(a, b) == RCmp(a, b) < 0

RLe(a, b) == RCmp(a, b) <= 0

RECURSIVE RPow(_, _)
RPow(a, k) == IF k = 0 THEN RInt(1) ELSE RMul(a, RPow(a, k - 1))

(***************************************************************************)
(* Floats: [k |-> "num" | "inf" | "-inf" | "nan", v |-> rational].  numpy  *)
(* and pandas divide by zero without raising (the RuntimeWarning is        *)
(* silenced by warnings.filterwarnings('ignore')); plain Python raises.    *)
(***************************************************************************)
Num(q) == [k |-> "num", v |-> q]

Inf == [k |-> "inf", v |-> RInt(0)]

NegInf == [k |-> "-inf", v |-> RInt(0)]

NaN == [k |-> "nan", v |-> RInt(0)]

IsNum(f) == f.k = "num"

\* a / b of two integers held in numpy arrays or pandas columns
NpDiv(a, b) ==
    IF b # 0 THEN Num(Rat(IF b > 0 THEN a ELSE 0 - a, IF b > 0 THEN b ELSE 0 - b))
    ELSE IF a > 0 THEN Inf
    ELSE IF a < 0 THEN NegInf
    ELSE NaN

\* f * c for a rational c > 0
FScale(f, c) == IF IsNum(f) THEN Num(RMul(f.v, c)) ELSE f

(***************************************************************************)
(* Surds: [sg |-> -1 | 0 | 1, sq |-> rational >= 0] is sg * sqrt(sq).      *)
(***************************************************************************)
Sqrt(q) == [sg |-> RSign(q), sq |-> q]

SurdScale(c, s) == [sg |-> RSign(c) * s.sg, sq |-> RMul(RMul(c, c), s.sq)]

SurdMul(s, t) == [sg |-> s.sg * t.sg, sq |-> RMul(s.sq, t.sq)]

\* the sign of s - t
SurdCmp(s, t) ==
    IF s.sg # t.sg THEN (IF s.sg < t.sg THEN -1 ELSE 1)
    ELSE s.sg * RCmp(s.sq, t.sq)

SurdEq(s, t) == SurdCmp(s, t) = 0

SurdLt(s, t) == SurdCmp(s, t) < 0

(***************************************************************************)
(* numpy reductions over an array of integers.                             *)
(***************************************************************************)
RECURSIVE RSum(_)
RSum(s) == IF s = << >> THEN RInt(0) ELSE RAdd(Head(s), RSum(Tail(s)))

ToReal(a) == [i \in 1..Len(a) |-> RInt(a[i])]

\* np.mean
Mean(a) == RDiv(RSum(ToReal(a)), RInt(Len(a)))

\* a - m, element by element
Minus(a, m) == [i \in 1..Len(a) |-> RSub(RInt(a[i]), m)]

\* a - a.mean()
Deviations(a) == Minus(a, Mean(a))

\* (u * v).sum() of two arrays of reals
Dot(u, v) == RSum([i \in 1..Len(u) |-> RMul(u[i], v[i])])

\* ((a - a.mean())**2).sum()
SumSq(d) == Dot(d, d)

SumSqDev(a) == SumSq(Deviations(a))

\* one entry of np.cov(x, y, bias=1), from the deviations of the two arrays:
\* the mean of their products
CovBias(dx, dy) == RDiv(Dot(dx, dy), RInt(Len(dx)))

(***************************************************************************)
(* scipy.stats.linregress(x, y) for x not all identical: the fields the    *)
(* script unpacks, (slope, intercept, rvalue, pvalue, stderr).  stderr is  *)
(* the standard error of the estimated slope.  The p-value is not          *)
(* modelled: the script binds it (p_r, _) and never reads it.              *)
(***************************************************************************)
\* r squared with the predictor's variance in place of the response's; C14
\* tells it from RSquared
RSquaredOfPredictor(ssxm, ssxym, ssym) ==
    IF RSign(ssxm) = 0 \/ RSign(ssym) = 0 THEN RInt(0)
    ELSE RDiv(RMul(ssxym, ssxym), RMul(ssxm, ssxm))

\* r squared; r is 0.0 when a variance is 0
RSquared(ssxm, ssxym, ssym) ==
    IF RSign(ssxm) = 0 \/ RSign(ssym) = 0 THEN RInt(0)
    ELSE RDiv(RMul(ssxym, ssxym), RMul(ssxm, ssym))

\* the result with the intercept of a fit on centred x values; C19 tells it
\* from FitFields
FitFieldsCentred(n, xmean, ymean, ssxm, ssxym, ssym, rsq) ==
    [slope     |-> RDiv(ssxym, ssxm),
     intercept |-> ymean,
     rvalue    |-> [sg |-> IF RSign(rsq) = 0 THEN 0 ELSE RSign(ssxym), sq |-> rsq],
     stderr    |-> IF n = 2 THEN Sqrt(RInt(0))
                   ELSE Sqrt(RDiv(RDiv(RMul(RSub(RInt(1), rsq), ssym), ssxm),
                                  RInt(n - 2)))]

\* the result with the magnitude of r in place of r; C13 tells it from FitFields
FitFieldsUnsigned(n, xmean, ymean, ssxm, ssxym, ssym, rsq) ==
    [slope     |-> RDiv(ssxym, ssxm),
     intercept |-> RSub(ymean, RMul(RDiv(ssxym, ssxm), xmean)),
     rvalue    |-> [sg |-> IF RSign(rsq) = 0 THEN 0 ELSE 1, sq |-> rsq],
     stderr    |-> IF n = 2 THEN Sqrt(RInt(0))
                   ELSE Sqrt(RDiv(RDiv(RMul(RSub(RInt(1), rsq), ssym), ssxm),
                                  RInt(n - 2)))]

\* the result, from the means, the entries of np.cov and r squared
FitFields(n, xmean, ymean, ssxm, ssxym, ssym, rsq) ==
    [slope     |-> RDiv(ssxym, ssxm),
     intercept |-> RSub(ymean, RMul(RDiv(ssxym, ssxm), xmean)),
     rvalue    |-> [sg |-> IF RSign(rsq) = 0 THEN 0 ELSE RSign(ssxym), sq |-> rsq],
     stderr    |-> IF n = 2 THEN Sqrt(RInt(0))
                   ELSE Sqrt(RDiv(RDiv(RMul(RSub(RInt(1), rsq), ssym), ssxm),
                                  RInt(n - 2)))]

FitMoments(n, xmean, ymean, ssxm, ssxym, ssym) ==
    FitFields(n, xmean, ymean, ssxm, ssxym, ssym, RSquared(ssxm, ssxym, ssym))

FitDeviations(n, xmean, ymean, dx, dy) ==
    FitMoments(n, xmean, ymean, CovBias(dx, dx), CovBias(dx, dy), CovBias(dy, dy))

LinRegress(x, y) ==
    FitDeviations(Len(x), Mean(x), Mean(y), Deviations(x), Deviations(y))

(***************************************************************************)
(* The data the script holds.  The tables of charts 3c and 6c and the      *)
(* arrays of chart 8 are literals of the script; the revenue rows of chart *)
(* 2b come from data/02_operations.csv, which is not part of the sources.  *)
(***************************************************************************)
SalData ==
    << [y2023 |-> 7069, y2024 |-> 7642], [y2023 |-> 2209, y2024 |-> 2205],
       [y2023 |-> 1387, y2024 |-> 1743], [y2023 |-> 1860, y2024 |-> 2083],
       [y2023 |-> 550,  y2024 |-> 513] >>

Additions23 == <<1800, 2666, 505, 4971>>

Additions24 == <<1574, 1996, 845, 4415>>

\* line 212: vals of the net debt bridge of chart 1
BridgeVals == <<0 - 9602, 0 - 2564, 2016, 165, 0 - 10005>>

\* line 487: vals_nd of chart 4d
ValsNd == <<8880, 4930, 7891, 6529, 0 - 18225>>

\* line 483: nd_24
Nd24 == 10005

\* line 620: the value pct takes for a row without a positive 2023 value
NewSentinel == 999

YearsHist == <<2019, 2020, 2021, 2022, 2023, 2024>>

RevenueH == <<13200, 13000, 13800, 15100, 16325, 18202>>

\* the expenses in falling order; C15 tells it from ExpensesH
ExpensesFalling == <<16186, 15075, 14200, 13500, 13100, 12800>>

ExpensesH == <<12800, 13100, 13500, 14200, 15075, 16186>>

NetDebtH == <<5500, 6200, 7000, 8000, 9602, 10005>>

YearsProj == <<2025, 2026, 2027>>

\* the critical value of the revenue and expense bands, 1.96
Z95 == Rat(196, 100)

\* the multiplier of the net-debt band, 1.5
ZNetDebt == Rat(15, 10)

\* the literal 5 of the exponent 1/5 in the chart 8a title
CagrYears == 5

\* the factor 100 that turns a ratio into a percentage
Percent == 100

(***************************************************************************)
(* Bounds of the inputs the model explores besides the script's own data.  *)
(***************************************************************************)
\* values of a series or of a table cell range over -1..MaxVal
MaxVal == 2

\* consecutive historical periods are 1..MaxGap apart
MaxGap == 2

\* a table has 1..MaxRows rows
MaxRows == 2

\* a requested period lies in last-1 .. last+MaxAhead of the historical periods
MaxAhead == 2

\* the first historical period of every series
FirstYear == 2019

\* the number of points of a generated historical series
HistLen == 3

Vals == (0 - 1)..MaxVal

\* periods one apart, the last one 1..MaxGap after the one before it
HistPeriods ==
    {[i \in 1..HistLen |-> IF i < HistLen THEN FirstYear + i - 1
                           ELSE FirstYear + HistLen - 2 + g] : g \in 1..MaxGap}

\* periods out of order (the first two swapped) and periods with a repeat (the
\* first one twice)
DisorderedPeriods ==
    {[i \in 1..HistLen |-> IF i = 1 THEN FirstYear + 1
                           ELSE IF i = 2 THEN FirstYear ELSE FirstYear + i - 1],
     [i \in 1..HistLen |-> IF i = 1 THEN FirstYear ELSE FirstYear + i - 2]}

Series == [1..HistLen -> Vals]

\* the series the others are varied around: flat, then a rise to MaxVal
BaseSeries == [i \in 1..HistLen |-> IF i < HistLen THEN 1 ELSE MaxVal]

\* series that only take the extreme values
StepSeries == [1..HistLen -> {0, MaxVal}]

\* step series that start at 0 and never fall
RisingSeries ==
    {s \in StepSeries : s[1] = 0 /\ \A i \in 1..(HistLen - 1) : s[i] <= s[i + 1]}

Last(a) == a[Len(a)]

\* two periods, 1..MaxGap apart
TwoPeriods == {<<FirstYear, FirstYear + g>> : g \in 1..MaxGap}

\* every series of two points, and the one the others are varied around
TwoPoints == [1..2 -> Vals]

TwoBase == <<1, MaxVal>>

\* historical periods that are all the same
SamePeriods == [i \in 1..HistLen |-> FirstYear]

\* step series one point shorter than the historical periods
ShortSeries == [1..(HistLen - 1) -> {0, MaxVal}]

\* two requests after the last historical period: one in order, one out of
\* order that repeats a period
CoreRequests(hist) ==
    {<<Last(hist) + 1, Last(hist) + MaxAhead>>,
     <<Last(hist) + MaxAhead, Last(hist) + 1, Last(hist) + MaxAhead>>}

\* requests of periods around the last historical period: at, before or after
\* it, in order, repeated, and out of order with a repeat
Requests(hist) ==
    {<<p, q>> : p \in {Last(hist), Last(hist) + 1},
                q \in (Last(hist) + 1)..(Last(hist) + MaxAhead)}
    \cup CoreRequests(hist)
    \cup {<<Last(hist) + 1, Last(hist) - 1>>}

Pairs == {[y2023 |-> a, y2024 |-> b] : a \in Vals, b \in Vals}

Tables == UNION {[1..n -> Pairs] : n \in 1..MaxRows}

\* bridges of an opening value, MaxRows items and a closing value
Bridges == [1..(MaxRows + 2) -> Vals]

\* compositions of MaxRows + 1 components
Compositions == [1..(MaxRows + 1) -> Vals]

\* the rows of data/08_investments.csv are not part of the sources: the items
\* of a table, then the row of their totals
InvOf(t) ==
    [i \in 1..(Len(t) + 1) |->
        IF i <= Len(t)
        THEN [Investment_Type |-> "Item", y2023 |-> t[i].y2023, y2024 |-> t[i].y2024]
        ELSE [Investment_Type |-> "Total", y2023 |-> 0, y2024 |-> 0]]

\* an item that grew by NewSentinel percent
SentinelPair == [y2023 |-> Percent, y2024 |-> Percent + NewSentinel]

\* tables of one item next to an item that grew by NewSentinel percent
SentinelTables == {<<p, SentinelPair>> : p \in Pairs} \cup {<<SentinelPair>>}

BudgetPairs == {[budget |-> b, actual |-> a] : b \in Vals, a \in Vals}

BudgetTables == UNION {[1..n -> BudgetPairs] : n \in 1..MaxRows}

(***************************************************************************)
(* The statements of the charts, as operators.                             *)
(***************************************************************************)
\* a column / 1000, as doubles (chart 2a: CAD billions)
Thousands(v) == RDiv(RInt(v), RInt(1000))

\* ((a - b) / b * 100) if b != 0 else 0 (charts 2a and 3d)
BudgetDiff(b, a) ==
    IF RSign(b) # 0 THEN Num(RMul(RDiv(RSub(a, b), b), RInt(Percent)))
    ELSE Num(RInt(0))

\* chart 2a: diff of every (budget, actual) pair of rev, both in billions
Diffs(rows) ==
    [i \in 1..Len(rows) |->
        BudgetDiff(Thousands(rows[i].budget), Thousands(rows[i].y2024))]

\* chart 3d: variance_pct over the columns of exp_service
VariancePct(rows) ==
    [i \in 1..Len(rows) |-> BudgetDiff(RInt(rows[i].budget), RInt(rows[i].actual))]

\* a change relative to the current value instead of the previous one; C10
\* tells it from PctChangeNp
PctChangeOfCurrent(prev, cur) == FScale(NpDiv(cur - prev, cur), RInt(Percent))

\* (cur - prev) / prev * 100 over pandas columns (chart 2b): no exception
PctChangeNp(prev, cur) == FScale(NpDiv(cur - prev, prev), RInt(Percent))

\* chart 2b: yoy, one entry per revenue row
YoY(rows) == [i \in 1..Len(rows) |-> PctChangeNp(rows[i].y2023, rows[i].y2024)]

\* (cur - prev) / prev * 100 over Python ints (charts 3c and 6c), prev # 0
PctChangePy(prev, cur) ==
    Num(RMul(RDiv(RInt(cur - prev), RInt(prev)), RInt(Percent)))

\* the index of the first zero denominator of a loop over prevs, 0 if none
RECURSIVE FirstZero(_, _)
FirstZero(prevs, i) ==
    IF i > Len(prevs) THEN 0
    ELSE IF prevs[i] = 0 THEN i
    ELSE FirstZero(prevs, i + 1)

\* the labels a loop draws before it ends or raises ZeroDivisionError
PctFirst(prevs, curs, n) == [i \in 1..n |-> PctChangePy(prevs[i], curs[i])]

PctLoop(prevs, curs) ==
    PctFirst(prevs, curs,
             IF FirstZero(prevs, 1) = 0 THEN Len(prevs) ELSE FirstZero(prevs, 1) - 1)

Column23(rows) == [i \in 1..Len(rows) |-> rows[i].y2023]

Column24(rows) == [i \in 1..Len(rows) |-> rows[i].y2024]

\* a projection over the requested periods in ascending order; C5 tells it
\* from Project
ProjectSorted(slope, intercept, periods) ==
    [i \in 1..Len(periods) |->
        RAdd(RMul(slope, RInt(SortSeq(periods, LAMBDA a, b : a < b)[i])), intercept)]

\* slope * years_proj + intercept, element by element
Project(slope, intercept, periods) ==
    [i \in 1..Len(periods) |-> RAdd(RMul(slope, RInt(periods[i])), intercept)]

\* 1 + 1/len(hist) + (p - hist.mean())**2 / ((hist - hist.mean())**2).sum()
RSq(d) == RMul(d, d)

Leverage(hist, p) ==
    RAdd(RAdd(RInt(1), Rat(1, Len(hist))),
         RDiv(RSq(RSub(RInt(p), Mean(hist))), SumSqDev(hist)))

\* chart 8a: ci = 1.96 * se_r * np.sqrt(1 + 1/n + (p - mean)**2 / Sxx)
CiRevenue(se, hist, proj) ==
    [i \in 1..Len(proj) |-> SurdMul(SurdScale(Z95, se), Sqrt(Leverage(hist, proj[i])))]

\* chart 8b: the band is exp_proj -+ 1.96 * se_e at every projected period
BandExpense(se, proj) == [i \in 1..Len(proj) |-> SurdScale(Z95, se)]

\* chart 8d: the band is nd_proj -+ 1.5 * se_nd at every projected period
BandNetDebt(se, proj) == [i \in 1..Len(proj) |-> SurdScale(ZNetDebt, se)]

(***************************************************************************)
(* A root [k, rad, deg] with k = "num" is 100 * (rad ** (1/deg) - 1) for a *)
(* rational rad >= 0; k = "inf" and k = "nan" are the doubles inf and nan. *)
(***************************************************************************)
\* (ratio ** (1/deg) - 1) * 100 for a double ratio: a negative base to a
\* fractional power is nan
GrowthPct(ratio, deg) ==
    IF ratio.k = "nan" THEN [k |-> "nan", rad |-> RInt(0), deg |-> deg]
    ELSE IF ratio.k \in {"inf", "-inf"} THEN [k |-> "inf", rad |-> RInt(0), deg |-> deg]
    ELSE IF RSign(ratio.v) < 0 THEN [k |-> "nan", rad |-> RInt(0), deg |-> deg]
    ELSE [k |-> "num", rad |-> ratio.v, deg |-> deg]

\* chart 8a title: ((revenue_h[-1] / revenue_h[0]) ** (1/5) - 1) * 100
CagrTitle(values) == GrowthPct(NpDiv(Last(values), values[1]), CagrYears)

\* net_debt_h / revenue_h * 100, element by element
DebtToRevenue(debt, revenue) ==
    [i \in 1..Len(debt) |-> FScale(NpDiv(debt[i], revenue[i]), RInt(Percent))]

AllIdentical(a) == \A i \in 1..Len(a) : a[i] = a[1]

(***************************************************************************)
(* Chart 1: the net debt bridge.                                           *)
(***************************************************************************)
\* lines 215-223: the bottoms of the bars from bar i on; the first and the last
\* bar stand on 0, an item stands on the running total
RECURSIVE BridgeBottoms(_, _, _)
BridgeBottoms(v, i, run) ==
    IF i > Len(v) THEN << >>
    ELSE IF i = 1 \/ i = Len(v) THEN <<0>> \o BridgeBottoms(v, i + 1, run)
    ELSE <<run>> \o BridgeBottoms(v, i + 1, run + v[i])

\* lines 215-223: running after the loop from bar i on
RECURSIVE BridgeRunning(_, _, _)
BridgeRunning(v, i, run) ==
    IF i > Len(v) THEN run
    ELSE IF i = 1 \/ i = Len(v) THEN BridgeRunning(v, i + 1, run)
    ELSE BridgeRunning(v, i + 1, run + v[i])

(***************************************************************************)
(* Chart 4d: the composition of net debt.                                  *)
(***************************************************************************)
\* the running total taking every component; C25 tells it from CompositionStep
CompositionStepAll(run, v) == run + v

\* line 497: if v > 0: running += v
CompositionStep(run, v) == IF v > 0 THEN run + v ELSE run

\* lines 490-497: the bottoms handed to ax.bar from bar i on
RECURSIVE CompositionBottoms(_, _, _)
CompositionBottoms(v, i, run) ==
    IF i > Len(v) THEN << >>
    ELSE <<run>> \o CompositionBottoms(v, i + 1, CompositionStep(run, v[i]))

\* lines 490-497: running after the loop from bar i on
RECURSIVE CompositionRunning(_, _, _)
CompositionRunning(v, i, run) ==
    IF i > Len(v) THEN run
    ELSE CompositionRunning(v, i + 1, CompositionStep(run, v[i]))

(***************************************************************************)
(* Chart 6b: the investment portfolio.                                     *)
(***************************************************************************)
\* line 613: inv[inv['Investment_Type'] != 'Total']
IsItem(row) == row.Investment_Type # "Total"

NotTotal(rows) == SelectSeq(rows, IsItem)

\* line 614: sort_values('2024', ascending=False); the order of rows with the
\* same 2024 value is the sort's choice
SortedDescending(rows) ==
    {s \in {[i \in 1..Len(rows) |-> rows[p[i]]] :
                p \in {q \in [1..Len(rows) -> 1..Len(rows)] :
                          \A i, j \in 1..Len(rows) : i # j => q[i] # q[j]}} :
        \A i \in 1..(Len(rows) - 1) : s[i].y2024 >= s[i + 1].y2024}

\* line 620: pct of a row
InvPct(row) ==
    IF row.y2023 > 0
    THEN RMul(RDiv(RInt(row.y2024 - row.y2023), RInt(row.y2023)), RInt(Percent))
    ELSE RInt(NewSentinel)

\* lines 621-622: the colour and the text of the label of pct; v is the number
\* that '+.0f' formats
LabelOf(pct) ==
    [c    |-> IF RSign(pct) > 0 THEN "GREEN_ACC" ELSE "RED_ACC",
     text |-> IF REq(pct, RInt(NewSentinel)) THEN "+NEW" ELSE "percent",
     v    |-> pct]

\* lines 619-624: the labels of the rows, in the order of the bars
Labels(rows) == [i \in 1..Len(rows) |-> LabelOf(InvPct(rows[i]))]

\* the subtraction failing only when the first array is the shorter one; C16
\* tells it from SurplusRaises
SurplusRaisesIfShorter(a, b) == Len(a) < Len(b) /\ Len(a) # 1

\* line 785: revenue_h - expenses_h raises ValueError for arrays numpy cannot
\* broadcast: different lengths, neither of them 1
SurplusRaises(a, b) == Len(a) # Len(b) /\ Len(a) # 1 /\ Len(b) # 1

\* linregress failing on the lengths only; C20 tells it from LinRegressRaises
LinRegressRaisesOnLength(x, y) == Len(x) # Len(y)

\* lines 791, 813, 835, 848: stats.linregress(x, y) raises ValueError: np.cov
\* refuses arrays of different length, and linregress refuses x values that are
\* all identical
LinRegressRaises(x, y) == Len(x) # Len(y) \/ AllIdentical(x)

\* r * |r| in place of r squared; C17 tells it from Squared
SignedSquare(r) == RMul(RInt(r.sg), r.sq)

\* r ** 2 of a coefficient r
Squared(r) == r.sq

(***************************************************************************)
(* State.  pc is the chart the script is about to draw; raised is the      *)
(* exception that ended the script, "none" while it runs.  A variable the  *)
(* script has not assigned yet holds an empty array or a zero.             *)
(***************************************************************************)
VARIABLES
    pc, raised,
    rev, diff, yoy,                      \* charts 2a and 2b
    sal_df, pct_3c,                      \* chart 3c
    exp_service, variance_pct,           \* chart 3d
    additions_23, additions_24, pct_6c,  \* chart 6c
    years_hist, revenue_h, expenses_h, net_debt_h, years_proj,
    slope_r, intercept_r, r_r, se_r, rev_proj, years_all, rev_all, r2_r, ci,
    cagr_title,                          \* chart 8a
    slope_e, intercept_e, r_e, se_e, exp_proj, r2_e, band_e, surplus_proj,
    slope_re, intercept_re, r_re, r2_re, \* chart 8c
    slope_nd, intercept_nd, r_nd, se_nd, nd_proj, r2_nd, band_nd, nd_pct_rev,
    vals, running, bottoms, heights,     \* chart 1; chart 4d reuses running
    vals_nd, bottoms_nd,                 \* chart 4d
    inv, inv_plot, label_p               \* chart 6b

tables == <<rev, sal_df, exp_service, additions_23, additions_24>>

bars ==
    <<vals, running, bottoms, heights, vals_nd, bottoms_nd, inv, inv_plot, label_p>>

out2a == <<diff>>

out2b == <<yoy>>

out3c == <<pct_3c>>

out3d == <<variance_pct>>

out6c == <<pct_6c>>

arrays == <<years_hist, revenue_h, expenses_h, net_debt_h, years_proj>>

out8a ==
    <<slope_r, intercept_r, r_r, se_r, rev_proj, years_all, rev_all, r2_r, ci,
      cagr_title>>

out8b == <<slope_e, intercept_e, r_e, se_e, exp_proj, r2_e, band_e, surplus_proj>>

out8c == <<slope_re, intercept_re, r_re, r2_re>>

out8d ==
    <<slope_nd, intercept_nd, r_nd, se_nd, nd_proj, r2_nd, band_nd, nd_pct_rev>>

vars ==
    <<pc, raised, tables, out2a, out2b, out3c, out3d, out6c, arrays,
      out8a, out8b, out8c, out8d, bars>>

Zero == RInt(0)

ZeroSurd == Sqrt(RInt(0))

Unset8 ==
    /\ slope_r = Zero /\ intercept_r = Zero /\ r_r = ZeroSurd /\ se_r = ZeroSurd
    /\ rev_proj = << >> /\ years_all = << >> /\ rev_all = << >> /\ ci = << >>
    /\ cagr_title = [k |-> "unset", rad |-> Zero, deg |-> 0]
    /\ slope_e = Zero /\ intercept_e = Zero /\ r_e = ZeroSurd /\ se_e = ZeroSurd
    /\ exp_proj = << >> /\ band_e = << >> /\ surplus_proj = << >>
    /\ slope_re = Zero /\ intercept_re = Zero /\ r_re = ZeroSurd
    /\ slope_nd = Zero /\ intercept_nd = Zero /\ r_nd = ZeroSurd /\ se_nd = ZeroSurd
    /\ nd_proj = << >> /\ band_nd = << >> /\ nd_pct_rev = << >>
    /\ r2_r = Zero /\ r2_e = Zero /\ r2_re = Zero /\ r2_nd = Zero

(***************************************************************************)
(* Charts 2a, 2b, 3c, 3d and 6c: percentage changes.                       *)
(***************************************************************************)
\* lines 262-281: diff of every (budget, actual) pair, 0 for a zero budget
Chart2a ==
    /\ pc = "chart2a"
    /\ diff' = Diffs(rev)
    /\ pc' = "chart2b"
    /\ UNCHANGED <<raised, bars, tables, out2b, out3c, out3d, out6c, arrays,
                   out8a, out8b, out8c, out8d>>

\* lines 284-295: yoy over the pandas columns of rev
Chart2b ==
    /\ pc = "chart2b"
    /\ yoy' = YoY(rev)
    /\ pc' = "chart3c"
    /\ UNCHANGED <<raised, bars, tables, out2a, out3c, out3d, out6c, arrays,
                   out8a, out8b, out8c, out8d>>

\* lines 383-401: pct of every sal_df row; a row is a Series of Python ints
Chart3c ==
    /\ pc = "chart3c"
    /\ pct_3c' = PctLoop(Column23(sal_df), Column24(sal_df))
    /\ IF FirstZero(Column23(sal_df), 1) = 0
       THEN pc' = "chart3d" /\ raised' = raised
       ELSE pc' = "crashed" /\ raised' = "ZeroDivisionError"
    /\ UNCHANGED <<bars, tables, out2a, out2b, out3d, out6c, arrays,
                   out8a, out8b, out8c, out8d>>

\* lines 404-416: variance_pct of every exp_service row, 0 for a zero budget
Chart3d ==
    /\ pc = "chart3d"
    /\ variance_pct' = VariancePct(exp_service)
    /\ pc' = "chart6c"
    /\ UNCHANGED <<raised, bars, tables, out2a, out2b, out3c, out6c, arrays,
                   out8a, out8b, out8c, out8d>>

\* lines 631-646: pct of every (additions_23, additions_24) pair of ints
Chart6c ==
    /\ pc = "chart6c"
    /\ pct_6c' = PctLoop(additions_23, additions_24)
    /\ IF FirstZero(additions_23, 1) = 0
       THEN pc' = "chart8a" /\ raised' = raised
       ELSE pc' = "crashed" /\ raised' = "ZeroDivisionError"
    /\ UNCHANGED <<bars, tables, out2a, out2b, out3c, out3d, arrays,
                   out8a, out8b, out8c, out8d>>

\* line 213: running = -9602, the opening value, which is the first of vals
Opening(v) == v[1]

\* lines 210-226: the bars of the net debt bridge
Chart1 ==
    /\ pc = "chart1"
    /\ bottoms' = BridgeBottoms(vals, 1, Opening(vals))
    /\ heights' = vals
    /\ running' = BridgeRunning(vals, 1, Opening(vals))
    /\ pc' = "chart4d"
    /\ UNCHANGED <<raised, tables, out2a, out2b, out3c, out3d, out6c, arrays,
                   out8a, out8b, out8c, out8d, vals, vals_nd, bottoms_nd, inv,
                   inv_plot, label_p>>

\* lines 482-498: the bars of the composition of net debt, from running = 0
Chart4d ==
    /\ pc = "chart4d"
    /\ bottoms_nd' = CompositionBottoms(vals_nd, 1, 0)
    /\ running' = CompositionRunning(vals_nd, 1, 0)
    /\ pc' = "chart6b"
    /\ UNCHANGED <<raised, tables, out2a, out2b, out3c, out3d, out6c, arrays,
                   out8a, out8b, out8c, out8d, vals, bottoms, heights, vals_nd,
                   inv, inv_plot, label_p>>

\* lines 611-626: the rows sorted and the label of every row; label_p holds the
\* labels in the order they are drawn
Chart6b ==
    /\ pc = "chart6b"
    /\ \E s \in SortedDescending(NotTotal(inv)) :
          /\ inv_plot' = s
          /\ label_p' = Labels(s)
    /\ pc' = "drawn"
    /\ UNCHANGED <<raised, tables, out2a, out2b, out3c, out3d, out6c, arrays,
                   out8a, out8b, out8c, out8d, vals, running, bottoms, heights,
                   vals_nd, bottoms_nd, inv>>

(***************************************************************************)
(* Chart 8: regressions, projections, bands.                               *)
(***************************************************************************)
\* line 791: slope_r, intercept_r, r_r, p_r, se_r = stats.linregress(...)
Fit8a(fit) ==
    /\ slope_r' = fit.slope
    /\ intercept_r' = fit.intercept
    /\ r_r' = fit.rvalue
    /\ se_r' = fit.stderr

\* chart 8a with the revenue rebased on its first value in place; C21 tells it
\* from Chart8a
Chart8aInPlace ==
    /\ pc = "chart8a"
    /\ IF SurplusRaises(revenue_h, expenses_h) \/ LinRegressRaises(years_hist, revenue_h)
       THEN /\ pc' = "crashed"
            /\ raised' = "ValueError"
            /\ revenue_h' = revenue_h
            /\ UNCHANGED out8a
       ELSE /\ Fit8a(LinRegress(years_hist, revenue_h))
            /\ rev_proj' = Project(slope_r', intercept_r', years_proj)
            /\ years_all' = years_hist \o years_proj
            /\ rev_all' = ToReal(revenue_h) \o rev_proj'
            /\ r2_r' = Squared(r_r')
            /\ ci' = CiRevenue(se_r', years_hist, years_proj)
            /\ cagr_title' = CagrTitle(revenue_h)
            /\ revenue_h' = [i \in 1..Len(revenue_h) |-> revenue_h[i] - revenue_h[1]]
            /\ pc' = "chart8b"
            /\ raised' = raised
    /\ UNCHANGED <<bars, tables, out2a, out2b, out3c, out3d, out6c, years_hist,
                   expenses_h, net_debt_h, years_proj, out8b, out8c, out8d>>

\* line 785, then lines 789-809
Chart8a ==
    /\ pc = "chart8a"
    /\ IF SurplusRaises(revenue_h, expenses_h) \/ LinRegressRaises(years_hist, revenue_h)
       THEN /\ pc' = "crashed"
            /\ raised' = "ValueError"
            /\ UNCHANGED out8a
       ELSE /\ Fit8a(LinRegress(years_hist, revenue_h))
            /\ rev_proj' = Project(slope_r', intercept_r', years_proj)
            /\ years_all' = years_hist \o years_proj
            /\ rev_all' = ToReal(revenue_h) \o rev_proj'
            /\ r2_r' = Squared(r_r')
            /\ ci' = CiRevenue(se_r', years_hist, years_proj)
            /\ cagr_title' = CagrTitle(revenue_h)
            /\ pc' = "chart8b"
            /\ raised' = raised
    /\ UNCHANGED <<bars, tables, out2a, out2b, out3c, out3d, out6c, arrays,
                   out8b, out8c, out8d>>

\* line 813: slope_e, intercept_e, r_e, _, se_e = stats.linregress(...)
Fit8b(fit) ==
    /\ slope_e' = fit.slope
    /\ intercept_e' = fit.intercept
    /\ r_e' = fit.rvalue
    /\ se_e' = fit.stderr

\* lines 811-828
Chart8b ==
    /\ pc = "chart8b"
    /\ IF LinRegressRaises(years_hist, expenses_h)
       THEN /\ pc' = "crashed"
            /\ raised' = "ValueError"
            /\ UNCHANGED out8b
       ELSE /\ Fit8b(LinRegress(years_hist, expenses_h))
            /\ exp_proj' = Project(slope_e', intercept_e', years_proj)
            /\ r2_e' = Squared(r_e')
            /\ band_e' = BandExpense(se_e', years_proj)
            /\ surplus_proj' =
                  [i \in 1..Len(years_proj) |-> RSub(rev_proj[i], exp_proj'[i])]
            /\ pc' = "chart8c"
            /\ raised' = raised
    /\ UNCHANGED <<bars, tables, out2a, out2b, out3c, out3d, out6c, arrays,
                   out8a, out8c, out8d>>

\* line 835: slope_re, intercept_re, r_re, _, _ = stats.linregress(...)
Fit8c(fit) ==
    /\ slope_re' = fit.slope
    /\ intercept_re' = fit.intercept
    /\ r_re' = fit.rvalue

\* expenses regressed on the periods instead of the revenue values; C12 tells
\* it from Chart8c
Chart8cOnPeriods ==
    /\ pc = "chart8c"
    /\ IF LinRegressRaises(revenue_h, expenses_h)
       THEN /\ pc' = "crashed"
            /\ raised' = "ValueError"
            /\ UNCHANGED out8c
       ELSE /\ Fit8c(LinRegress(years_hist, expenses_h))
            /\ r2_re' = Squared(r_re')
            /\ pc' = "chart8d"
            /\ raised' = raised
    /\ UNCHANGED <<bars, tables, out2a, out2b, out3c, out3d, out6c, arrays,
                   out8a, out8b, out8d>>

\* lines 830-845: expenses regressed on revenue
Chart8c ==
    /\ pc = "chart8c"
    /\ IF LinRegressRaises(revenue_h, expenses_h)
       THEN /\ pc' = "crashed"
            /\ raised' = "ValueError"
            /\ UNCHANGED out8c
       ELSE /\ Fit8c(LinRegress(revenue_h, expenses_h))
            /\ r2_re' = Squared(r_re')
            /\ pc' = "chart8d"
            /\ raised' = raised
    /\ UNCHANGED <<bars, tables, out2a, out2b, out3c, out3d, out6c, arrays,
                   out8a, out8b, out8d>>

\* line 848: slope_nd, intercept_nd, r_nd, _, se_nd = stats.linregress(...)
Fit8d(fit) ==
    /\ slope_nd' = fit.slope
    /\ intercept_nd' = fit.intercept
    /\ r_nd' = fit.rvalue
    /\ se_nd' = fit.stderr

\* lines 847-862
Chart8d ==
    /\ pc = "chart8d"
    /\ IF LinRegressRaises(years_hist, net_debt_h)
       THEN /\ pc' = "crashed"
            /\ raised' = "ValueError"
            /\ UNCHANGED out8d
       ELSE /\ Fit8d(LinRegress(years_hist, net_debt_h))
            /\ nd_proj' = Project(slope_nd', intercept_nd', years_proj)
            /\ r2_nd' = Squared(r_nd')
            /\ band_nd' = BandNetDebt(se_nd', years_proj)
            /\ nd_pct_rev' = DebtToRevenue(net_debt_h, revenue_h)
            /\ pc' = "done"
            /\ raised' = raised
    /\ UNCHANGED <<bars, tables, out2a, out2b, out3c, out3d, out6c, arrays,
                   out8a, out8b, out8c>>

(***************************************************************************)
(* Specifications.  SpecGrowth runs charts 2a to 6c over bounded           *)
(* tables, one table varied at a time around the script's own.  Spec runs  *)
(* chart 8 from the state the script's own tables leave, over the script's *)
(* arrays and over bounded ones: every revenue series with two requests,   *)
(* every request with the expense and net-debt series varied, an expense   *)
(* series one point short, series of two points, and periods all the same. *)
(***************************************************************************)
\* the revenue rows are not in the sources: one row stands for them
\* nor are the rows of data/08_investments.csv
InvRows == InvOf(<<[y2023 |-> 1, y2024 |-> MaxVal]>>)

\* chart 1 has drawn the script's bridge
BridgeDrawn ==
    /\ vals = BridgeVals
    /\ bottoms = BridgeBottoms(BridgeVals, 1, Opening(BridgeVals))
    /\ heights = BridgeVals

\* charts 1, 4d and 6b have drawn the script's data
BarsDrawn ==
    /\ BridgeDrawn
    /\ vals_nd = ValsNd
    /\ bottoms_nd = CompositionBottoms(ValsNd, 1, 0)
    /\ running = CompositionRunning(ValsNd, 1, 0)
    /\ inv = InvRows
    /\ inv_plot = NotTotal(InvRows)
    /\ label_p = Labels(NotTotal(InvRows))

RevRows == <<[budget |-> 1, y2023 |-> 1, y2024 |-> MaxVal]>>

\* nor are the expense rows of chart 3d
ExpRows == <<[budget |-> 1, actual |-> MaxVal]>>

\* revenue rows of the yearly values of t, on a budget of 1
RevOfYears(t) ==
    [i \in 1..Len(t) |-> [budget |-> 1, y2023 |-> t[i].y2023, y2024 |-> t[i].y2024]]

\* revenue rows of the budgets and actual values of t, after a 2023 of 1
RevOfBudgets(t) ==
    [i \in 1..Len(t) |-> [budget |-> t[i].budget, y2023 |-> 1, y2024 |-> t[i].actual]]

InitGrowth ==
    /\ pc = "chart2a"
    /\ raised = "none"
    /\ \/ \E t \in Tables :
             \/ rev = RevOfYears(t) /\ sal_df = SalData /\ exp_service = ExpRows
                  /\ additions_23 = Additions23 /\ additions_24 = Additions24
             \/ rev = RevRows /\ sal_df = t /\ exp_service = ExpRows
                  /\ additions_23 = Additions23 /\ additions_24 = Additions24
             \/ rev = RevRows /\ sal_df = SalData /\ exp_service = ExpRows
                  /\ additions_23 = Column23(t) /\ additions_24 = Column24(t)
       \/ \E t \in BudgetTables :
             \/ rev = RevOfBudgets(t) /\ sal_df = SalData /\ exp_service = ExpRows
                  /\ additions_23 = Additions23 /\ additions_24 = Additions24
             \/ rev = RevRows /\ sal_df = SalData /\ exp_service = t
                  /\ additions_23 = Additions23 /\ additions_24 = Additions24
    /\ diff = << >> /\ yoy = << >> /\ pct_3c = << >> /\ variance_pct = << >>
    /\ pct_6c = << >>
    /\ years_hist = YearsHist /\ revenue_h = RevenueH /\ expenses_h = ExpensesH
    /\ net_debt_h = NetDebtH /\ years_proj = YearsProj
    /\ Unset8
    /\ BridgeDrawn
    /\ running = BridgeRunning(BridgeVals, 1, Opening(BridgeVals))
    /\ vals_nd = ValsNd /\ bottoms_nd = << >>
    /\ inv = InvRows /\ inv_plot = << >> /\ label_p = << >>

NextGrowth == Chart2a \/ Chart2b \/ Chart3c \/ Chart3d \/ Chart6c

SpecGrowth == InitGrowth /\ [][NextGrowth]_vars

(***************************************************************************)
(* The bar charts of totals (1, 4d, 6b), from the start of the script; the *)
(* charts between them write nothing these three read.                     *)
(***************************************************************************)
InitBars ==
    /\ pc = "chart1"
    /\ raised = "none"
    /\ rev = RevRows /\ sal_df = SalData /\ exp_service = ExpRows
    /\ additions_23 = Additions23 /\ additions_24 = Additions24
    /\ diff = << >> /\ yoy = << >> /\ pct_3c = << >> /\ variance_pct = << >>
    /\ pct_6c = << >>
    /\ years_hist = YearsHist /\ revenue_h = RevenueH /\ expenses_h = ExpensesH
    /\ net_debt_h = NetDebtH /\ years_proj = YearsProj
    /\ Unset8
    /\ \/ /\ vals \in Bridges \cup {BridgeVals}
          /\ vals_nd = ValsNd
          /\ inv = InvRows
       \/ /\ vals = BridgeVals
          /\ vals_nd \in Compositions
          /\ inv = InvRows
       \/ /\ vals = BridgeVals
          /\ vals_nd = ValsNd
          /\ \E t \in Tables \cup SentinelTables : inv = InvOf(t)
    /\ running = 0 /\ bottoms = << >> /\ heights = << >>
    /\ bottoms_nd = << >> /\ inv_plot = << >> /\ label_p = << >>

NextBars == Chart1 \/ Chart4d \/ Chart6b

SpecBars == InitBars /\ [][NextBars]_vars

Init ==
    /\ pc = "chart8a"
    /\ raised = "none"
    /\ rev = RevRows /\ sal_df = SalData /\ exp_service = ExpRows
    /\ additions_23 = Additions23 /\ additions_24 = Additions24
    /\ diff = Diffs(RevRows)
    /\ yoy = YoY(RevRows)
    /\ pct_3c = PctLoop(Column23(SalData), Column24(SalData))
    /\ variance_pct = VariancePct(ExpRows)
    /\ pct_6c = PctLoop(Additions23, Additions24)
    /\ \/ /\ years_hist = YearsHist /\ revenue_h = RevenueH
          /\ expenses_h = ExpensesH /\ net_debt_h = NetDebtH
          /\ years_proj = YearsProj
       \/ /\ years_hist \in HistPeriods
          /\ \/ /\ revenue_h \in Series
                /\ expenses_h = BaseSeries
                /\ net_debt_h = BaseSeries
                /\ years_proj \in CoreRequests(years_hist)
             \/ /\ revenue_h = BaseSeries
                /\ expenses_h \in StepSeries
                /\ net_debt_h \in RisingSeries
                /\ years_proj \in Requests(years_hist)
             \/ /\ revenue_h = BaseSeries
                /\ expenses_h \in ShortSeries
                /\ net_debt_h = BaseSeries
                /\ years_proj \in CoreRequests(years_hist)
       \/ /\ years_hist \in TwoPeriods
          /\ revenue_h \in TwoPoints
          /\ expenses_h = TwoBase /\ net_debt_h = TwoBase
          /\ years_proj \in CoreRequests(years_hist)
       \/ /\ years_hist \in DisorderedPeriods
          /\ revenue_h = BaseSeries
          /\ expenses_h = BaseSeries /\ net_debt_h = BaseSeries
          /\ years_proj \in CoreRequests(years_hist)
       \/ /\ years_hist = SamePeriods
          /\ revenue_h \in Series
          /\ expenses_h = BaseSeries /\ net_debt_h = BaseSeries
          /\ years_proj \in CoreRequests(years_hist)
    /\ Unset8
    /\ BarsDrawn

Next == Chart8a \/ Chart8b \/ Chart8c \/ Chart8d

Spec == Init /\ [][Next]_vars

(***************************************************************************)
(* Properties.  Ran8a to Ran8d say that the chart has been drawn           *)
(* in the current state; Ran2a to Ran6c the same, the loops of charts 3c   *)
(* and 6c to their end.                                                    *)
(***************************************************************************)
\* the script ended in a ValueError of a later chart
Ended8(later) == pc = "crashed" /\ raised = "ValueError" /\ later

Ran8a ==
    \/ pc \in {"chart8b", "chart8c", "chart8d", "done"}
    \/ Ended8(/\ ~SurplusRaises(revenue_h, expenses_h)
              /\ ~LinRegressRaises(years_hist, revenue_h))

Ran8b ==
    \/ pc \in {"chart8c", "chart8d", "done"}
    \/ Ended8(/\ ~SurplusRaises(revenue_h, expenses_h)
              /\ ~LinRegressRaises(years_hist, revenue_h)
              /\ ~LinRegressRaises(years_hist, expenses_h))

Ran8c ==
    \/ pc \in {"chart8d", "done"}
    \/ Ended8(/\ ~SurplusRaises(revenue_h, expenses_h)
              /\ ~LinRegressRaises(years_hist, revenue_h)
              /\ ~LinRegressRaises(years_hist, expenses_h)
              /\ ~LinRegressRaises(revenue_h, expenses_h))

Ran8d == pc = "done"

Ran2a == pc # "chart2a"

Ran2b == pc \notin {"chart2a", "chart2b"}

Ran3c ==
    pc \notin {"chart2a", "chart2b", "chart3c"} /\ FirstZero(Column23(sal_df), 1) = 0

Ran3d ==
    /\ pc \notin {"chart2a", "chart2b", "chart3c", "chart3d"}
    /\ FirstZero(Column23(sal_df), 1) = 0

Ran6c ==
    /\ pc \notin {"chart2a", "chart2b", "chart3c", "chart3d", "chart6c"}
    /\ raised # "ZeroDivisionError"

\* the number of periods a series spans
Span(periods) == Last(periods) - periods[1]

\* 1.96 * se * sqrt(1 + 1/n + (p - mean_period)^2 / Sxx)
HalfWidth(se, hist, p) ==
    SurdMul(SurdScale(Rat(196, 100), se),
            Sqrt(RAdd(RAdd(RInt(1), Rat(1, Len(hist))),
                      RDiv(RSq(RSub(RInt(p), Mean(hist))), SumSqDev(hist)))))

\* every half-width of a band is HalfWidth at its period
BandIsHalfWidth(band, se) ==
    /\ Len(band) = Len(years_proj)
    /\ \A i \in 1..Len(band) : SurdEq(band[i], HalfWidth(se, years_hist, years_proj[i]))

\* C1: every band the program draws (revenue, expenses, net debt) has, at
\* every projected period p, the half-width
\* 1.96 * se * sqrt(1 + 1/n + (p - mean_period)^2 / Sxx) of its own fit.
C1_HalfWidthFormula ==
    /\ Ran8a => BandIsHalfWidth(ci, se_r)
    /\ Ran8b => BandIsHalfWidth(band_e, se_e)
    /\ Ran8d => BandIsHalfWidth(band_nd, se_nd)

\* p is nearer to the mean historical period than q
Nearer(p, q) ==
    RLt(RSq(RSub(RInt(p), Mean(years_hist))), RSq(RSub(RInt(q), Mean(years_hist))))

\* a band is strictly wider at the period further from the mean
WiderFurtherOut(band, se) ==
    se.sg > 0 =>
        \A i, j \in 1..Len(band) :
            Nearer(years_proj[i], years_proj[j]) => SurdLt(band[i], band[j])

\* C2: with the fit fixed and se > 0, each band (revenue, expenses, net debt)
\* is strictly wider at p2 than at p1 whenever p1 is nearer to the mean
\* historical period than p2.
C2_StrictlyWiderFurtherOut ==
    /\ Ran8a => WiderFurtherOut(ci, se_r)
    /\ Ran8b => WiderFurtherOut(band_e, se_e)
    /\ Ran8d => WiderFurtherOut(band_nd, se_nd)

\* every half-width of a band is 1.96 standard errors, with or without the
\* factor that grows with the distance from the mean period
BandUsesZ95(band, se) ==
    \A i \in 1..Len(band) :
        \/ SurdEq(band[i], SurdScale(Rat(196, 100), se))
        \/ SurdEq(band[i], HalfWidth(se, years_hist, years_proj[i]))

\* C3: every band the program draws multiplies its standard error by the
\* critical value 1.96 and by no other multiplier.
C3_SameCriticalValue ==
    /\ Ran8a => BandUsesZ95(ci, se_r)
    /\ Ran8b => BandUsesZ95(band_e, se_e)
    /\ Ran8d => BandUsesZ95(band_nd, se_nd)

\* the sum of squared residuals of the line over the historical points
SSres(x, y, slope, intercept) ==
    RSum([i \in 1..Len(x) |->
            RSq(RSub(RInt(y[i]), RAdd(RMul(slope, RInt(x[i])), intercept)))])

\* sqrt(SSres / (n - 2))
StdErrEstimate(x, y, slope, intercept) ==
    Sqrt(RDiv(SSres(x, y, slope, intercept), RInt(Len(x) - 2)))

\* C4: for n >= 3 the se that a fit exposes and that the band multiplies is
\* the standard error of the estimate, sqrt(SSres / (n - 2)).
C4_StandardErrorOfEstimate ==
    Len(years_hist) >= 3 =>
        /\ Ran8a => SurdEq(se_r, StdErrEstimate(years_hist, revenue_h,
                                                slope_r, intercept_r))
        /\ Ran8b => SurdEq(se_e, StdErrEstimate(years_hist, expenses_h,
                                                slope_e, intercept_e))

\* the line is the least-squares fit of y on x: the residuals sum to zero and
\* are orthogonal to x (the normal equations)
IsLeastSquares(x, y, slope, intercept) ==
    /\ RSign(RSum([i \in 1..Len(x) |->
            RSub(RInt(y[i]), RAdd(RMul(slope, RInt(x[i])), intercept))])) = 0
    /\ RSign(RSum([i \in 1..Len(x) |->
            RMul(RInt(x[i]),
                 RSub(RInt(y[i]), RAdd(RMul(slope, RInt(x[i])), intercept)))])) = 0

\* one output per requested period, in the order of the request, each the
\* value of the line at its period
PointEstimates(proj, slope, intercept) ==
    /\ Len(proj) = Len(years_proj)
    /\ \A i \in 1..Len(proj) :
          REq(proj[i], RAdd(RMul(slope, RInt(years_proj[i])), intercept))
    /\ \A i, j \in 1..Len(proj) :
          years_proj[i] = years_proj[j] => REq(proj[i], proj[j])

\* C5: every point estimate is slope * p + intercept of the least-squares
\* fit of its own series; the outputs follow the order of the requested
\* periods, and a repeated period yields the same value at each place.
C5_PointEstimates ==
    /\ Ran8a => /\ IsLeastSquares(years_hist, revenue_h, slope_r, intercept_r)
                /\ PointEstimates(rev_proj, slope_r, intercept_r)
    /\ Ran8b => /\ IsLeastSquares(years_hist, expenses_h, slope_e, intercept_e)
                /\ PointEstimates(exp_proj, slope_e, intercept_e)
    /\ Ran8d => /\ IsLeastSquares(years_hist, net_debt_h, slope_nd, intercept_nd)
                /\ PointEstimates(nd_proj, slope_nd, intercept_nd)

\* C5 is met on a case of its own: all charts drawn for a request that is out
\* of order and repeats a period, over lines that are not flat.
C5_RepeatedOutOfOrderProjected ==
    /\ pc = "done"
    /\ Len(years_proj) = 3
    /\ years_proj[1] > years_proj[2]
    /\ years_proj[1] = years_proj[3]
    /\ RSign(slope_r) # 0
    /\ RSign(slope_nd) # 0
    /\ ~REq(rev_proj[1], rev_proj[2])
    /\ REq(nd_proj[1], nd_proj[3])

\* C6: a request that holds a period at or before the last historical period
\* fails with InvalidHorizonError and yields no forecast value.
C6_HorizonRejected ==
    (Ran8a /\ \E i \in 1..Len(years_proj) : years_proj[i] <= Last(years_hist)) =>
        /\ raised = "InvalidHorizonError"
        /\ rev_proj = << >>
        /\ exp_proj = << >>
        /\ nd_proj = << >>

\* 1 + g lies in [lo, hi] for the growth rate g = rad ** (1/deg) - 1
OnePlusGrowthWithin(root, lo, hi) ==
    /\ RLe(RPow(lo, root.deg), root.rad)
    /\ RLe(root.rad, RPow(hi, root.deg))

\* C7: the reported CAGR is (v_last / v_first)^(1/n) - 1 with n the number of
\* periods the series spans; for 2019..2024 and the values
\* [13200, 13000, 13800, 15100, 16325, 18202] it is about 0.0657.
C7_CagrOverSpan ==
    (Ran8a /\ revenue_h[1] > 0 /\ Last(revenue_h) >= 0 /\ Span(years_hist) > 0) =>
        /\ cagr_title.k = "num"
        \* rad ** (1/deg) = ratio ** (1/n), both sides raised to the power n * deg
        /\ REq(RPow(cagr_title.rad, Span(years_hist)),
               RPow(Rat(Last(revenue_h), revenue_h[1]), cagr_title.deg))
        /\ (years_hist = YearsHist /\ revenue_h = RevenueH) =>
               OnePlusGrowthWithin(cagr_title, Rat(106565, 100000), Rat(106575, 100000))

\* the relative tolerance of the round trip, 10^-6
Tolerance == Rat(1, 1000 * 1000)

\* C8: for a series with v0 > 0 spanning n > 0 periods, v0 * (1 + cagr)^n is
\* the last value v_n within tolerance, cagr being the reported value.
C8_CagrRoundTrip ==
    (Ran8a /\ revenue_h[1] > 0 /\ Last(revenue_h) >= 0 /\ Span(years_hist) > 0) =>
        /\ cagr_title.k = "num"
        \* (1 + cagr)^n = rad ** (n/deg) lies within v_n / v0 * (1 -+ tolerance):
        \* both sides raised to the power deg
        /\ RLe(RPow(RMul(Rat(Last(revenue_h), revenue_h[1]),
                         RSub(RInt(1), Tolerance)), cagr_title.deg),
               RPow(cagr_title.rad, Span(years_hist)))
        /\ RLe(RPow(cagr_title.rad, Span(years_hist)),
               RPow(RMul(Rat(Last(revenue_h), revenue_h[1]),
                         RAdd(RInt(1), Tolerance)), cagr_title.deg))

\* C9: the CAGR of a series whose first value is <= 0, or whose first and
\* last period coincide, fails with InvalidGrowthInputError and is no number.
C9_InvalidGrowthInputRejected ==
    (Ran8a /\ (revenue_h[1] <= 0 \/ Span(years_hist) = 0)) =>
        /\ raised = "InvalidGrowthInputError"
        /\ cagr_title.k = "unset"

\* a computed change of the pair (prev, cur), prev # 0, is times * the ratio
\* (cur - prev) / prev: change * prev = times * (cur - prev)
IsChange(change, prev, cur, times) ==
    /\ IsNum(change)
    /\ REq(RMul(change.v, RInt(prev)), RInt(times * (cur - prev)))

\* every change a chart has computed is times * the ratio of its pair
ChangesAre(changes, prevs, curs, times) ==
    \A i \in 1..Len(changes) :
        prevs[i] # 0 => IsChange(changes[i], prevs[i], curs[i], times)

HasZero(column) == \E i \in 1..Len(column) : column[i] = 0

Budgets(rows) == [i \in 1..Len(rows) |-> rows[i].budget]

\* the script has passed the loop of chart 3c, to its end or not
Left3c == pc \notin {"chart2a", "chart2b", "chart3c"}

\* the script has passed the loop of chart 6c, to its end or not
Left6c ==
    \/ pc \notin {"chart2a", "chart2b", "chart3c", "chart3d", "chart6c", "crashed"}
    \/ pc = "crashed" /\ FirstZero(Column23(sal_df), 1) = 0

\* C11: whenever the denominator of a percentage change (a prior-year value
\* or a budget) is 0, the computation fails with InvalidGrowthInputError; it
\* yields no stand-in number (0, NaN, infinity) and suppresses nothing.
C11_ZeroDenominatorRejected ==
    /\ (Ran2a /\ HasZero(Budgets(rev))) => raised = "InvalidGrowthInputError"
    /\ (Ran2b /\ HasZero(Column23(rev))) => raised = "InvalidGrowthInputError"
    /\ (Left3c /\ HasZero(Column23(sal_df))) => raised = "InvalidGrowthInputError"
    /\ (Ran3d /\ HasZero(Budgets(exp_service))) => raised = "InvalidGrowthInputError"
    /\ (Left6c /\ HasZero(additions_23)) => raised = "InvalidGrowthInputError"

\* the sum of (x - mean(x)) * (y - mean(y)), as sum(x * y) - n * mean(x) * mean(y)
Sxy(x, y) ==
    RSub(RSum([i \in 1..Len(x) |-> RMul(RInt(x[i]), RInt(y[i]))]),
         RMul(RInt(Len(x)), RMul(Mean(x), Mean(y))))

\* r = sxy / sqrt(sxx * syy) for sxx * syy > 0: the sign of sxy, and
\* r^2 * sxx * syy = sxy^2
IsPearson(r, sxx, sxy, syy) ==
    /\ r.sg = RSign(sxy)
    /\ REq(RMul(r.sq, RMul(sxx, syy)), RSq(sxy))

\* C12: the correlation fit regresses the response values (expenses) on the
\* predictor values (revenue, not the periods): slope = Sxy / Sxx,
\* intercept = mean(response) - slope * mean(predictor), and, for a response
\* that varies, Pearson r = Sxy / sqrt(Sxx * Syy).
C12_RegressionOnValues ==
    Ran8c =>
        /\ REq(RMul(slope_re, Sxy(revenue_h, revenue_h)), Sxy(revenue_h, expenses_h))
        /\ REq(intercept_re, RSub(Mean(expenses_h), RMul(slope_re, Mean(revenue_h))))
        /\ ~AllIdentical(expenses_h) =>
              IsPearson(r_re, Sxy(revenue_h, revenue_h), Sxy(revenue_h, expenses_h),
                        Sxy(expenses_h, expenses_h))

\* C12 is met on a case of its own: the correlation drawn for series whose
\* fit on the revenue values differs from the fit on the periods.
C12_ValuesNotPeriods ==
    /\ pc = "done"
    /\ ~AllIdentical(expenses_h)
    /\ RSign(slope_re) # 0
    /\ ~REq(slope_re, slope_e)
    /\ ~SurdEq(r_re, r_e)

\* C13: the Pearson r reported by the correlation chart keeps its sign: when
\* revenue and expenses move against each other (Sxy < 0) the reported value is
\* below zero, and when they move together (Sxy > 0) it is above zero.
C13_SignedPearson ==
    (Ran8c /\ ~AllIdentical(expenses_h)) =>
        /\ RSign(Sxy(revenue_h, expenses_h)) < 0 => SurdLt(r_re, ZeroSurd)
        /\ RSign(Sxy(revenue_h, expenses_h)) > 0 => SurdLt(ZeroSurd, r_re)

\* C13 is met on a case of its own: the chart drawn for revenue and expenses
\* that move against each other.
C13_NegativeCoMovement ==
    /\ pc = "done"
    /\ RSign(Sxy(revenue_h, expenses_h)) < 0
    /\ r_re.sg < 0
    /\ RSign(r2_re) > 0

\* C14: the correlation is symmetric: for two series that both vary, the r of
\* expenses against revenue equals the r of revenue against expenses.
C14_PearsonSymmetric ==
    (Ran8c /\ ~AllIdentical(expenses_h)) =>
        SurdEq(r_re, LinRegress(expenses_h, revenue_h).rvalue)

\* C14 is met on a case of its own: a correlation other than 0 between series
\* of different spread, where the two regressions have different slopes.
C14_DifferentSpread ==
    /\ pc = "done"
    /\ ~AllIdentical(expenses_h)
    /\ r_re.sg # 0
    /\ ~REq(Sxy(revenue_h, revenue_h), Sxy(expenses_h, expenses_h))
    /\ ~REq(slope_re, LinRegress(expenses_h, revenue_h).slope)

\* the script's own series
TorontoData ==
    /\ years_hist = YearsHist
    /\ revenue_h = RevenueH
    /\ expenses_h = ExpensesH

\* C15: on the Toronto series the slope of revenue on the year is positive, and
\* the Pearson r of revenue and expenses is above 0.9 and equals the closed
\* form Sxy / sqrt(Sxx * Syy).
C15_TorontoTrendAndCorrelation ==
    TorontoData =>
        /\ Ran8a => RSign(slope_r) > 0
        /\ Ran8c =>
              /\ SurdLt(Sqrt(RDiv(RInt(81), RInt(100))), r_re)
              /\ IsPearson(r_re, Sxy(RevenueH, RevenueH), Sxy(RevenueH, ExpensesH),
                           Sxy(ExpensesH, ExpensesH))

\* C15 is met on a case of its own: the whole of chart 8 drawn from the
\* Toronto series.
C15_TorontoDrawn ==
    /\ TorontoData
    /\ pc = "done"
    /\ raised = "none"
    /\ r_re.sg > 0
    /\ RSign(slope_r) > 0

IsRSquared(r2, x, y, slope, intercept) ==
    REq(RMul(r2, Sxy(y, y)), RSub(Sxy(y, y), SSres(x, y, slope, intercept)))

\* C17: for every valid fit (the predictor and the response both vary) the
\* R squared the chart reports equals 1 - SSres / SStot, with SSres the sum of
\* (y - (slope * x + intercept))^2 over the observed points and SStot the sum
\* of (y - mean(y))^2; nothing clamps it.
C17_RSquaredFromResiduals ==
    /\ (Ran8a /\ ~AllIdentical(revenue_h)) =>
          IsRSquared(r2_r, years_hist, revenue_h, slope_r, intercept_r)
    /\ (Ran8b /\ ~AllIdentical(expenses_h)) =>
          IsRSquared(r2_e, years_hist, expenses_h, slope_e, intercept_e)
    /\ (Ran8c /\ ~AllIdentical(expenses_h)) =>
          IsRSquared(r2_re, revenue_h, expenses_h, slope_re, intercept_re)
    /\ (Ran8d /\ ~AllIdentical(net_debt_h)) =>
          IsRSquared(r2_nd, years_hist, net_debt_h, slope_nd, intercept_nd)

\* C17 is met on a case of its own: a falling revenue trend that leaves
\* residuals, so that R squared lies strictly between 0 and 1.
C17_ImperfectFallingFit ==
    /\ pc = "done"
    /\ r_r.sg < 0
    /\ RSign(SSres(years_hist, revenue_h, slope_r, intercept_r)) > 0
    /\ RLt(Zero, r2_r) /\ RLt(r2_r, RInt(1))

\* C18: fitting a series whose values are all identical fails with
\* DegenerateFitError and returns no slope, r or R squared.
C18_ConstantSeriesRejected ==
    (Ran8a /\ AllIdentical(revenue_h)) =>
        /\ raised = "DegenerateFitError"
        /\ pc = "crashed"

\* the line reproduces every point: all residuals are 0
ReproducesPoints(x, y, slope, intercept) ==
    \A i \in 1..Len(x) : REq(RAdd(RMul(slope, RInt(x[i])), intercept), RInt(y[i]))

\* C19: for a series of exactly 2 points at distinct periods the fit does not
\* fail, its slope and intercept reproduce both points (both residuals are 0)
\* and its standard error is exactly 0.
C19_TwoPointFitExact ==
    (Len(years_hist) = 2 /\ Len(revenue_h) = 2 /\ years_hist[1] # years_hist[2]) =>
        /\ pc = "chart8b" => raised = "none"
        /\ Ran8a => /\ ReproducesPoints(years_hist, revenue_h, slope_r, intercept_r)
                    /\ SurdEq(se_r, ZeroSurd)
        /\ Ran8b => /\ ReproducesPoints(years_hist, expenses_h, slope_e, intercept_e)
                    /\ SurdEq(se_e, ZeroSurd)
        /\ Ran8d => /\ ReproducesPoints(years_hist, net_debt_h, slope_nd, intercept_nd)
                    /\ SurdEq(se_nd, ZeroSurd)

\* C19 is met on a case of its own: the charts drawn from two points with
\* different values, so that the line through them has a slope.
C19_TwoPointsFitted ==
    /\ Len(years_hist) = 2
    /\ pc = "done"
    /\ revenue_h[1] # revenue_h[2]
    /\ RSign(slope_r) # 0
    /\ RSign(intercept_r) # 0

SameFit(fit, slope, intercept, r) ==
    /\ REq(slope, fit.slope)
    /\ REq(intercept, fit.intercept)
    /\ SurdEq(r, fit.rvalue)

\* every chart that has been drawn shows the fit of the arrays as they are now
FitsOfTheArrays ==
    /\ Ran8a => SameFit(LinRegress(years_hist, revenue_h), slope_r, intercept_r, r_r)
    /\ Ran8b => SameFit(LinRegress(years_hist, expenses_h), slope_e, intercept_e, r_e)
    /\ Ran8c => SameFit(LinRegress(revenue_h, expenses_h), slope_re, intercept_re, r_re)
    /\ Ran8d => SameFit(LinRegress(years_hist, net_debt_h), slope_nd, intercept_nd, r_nd)

\* C21: the fits, forecasts and the correlation leave their inputs alone: no
\* step of charts 8a-8d changes years_hist, revenue_h, expenses_h or
\* net_debt_h, so that every later fit sees the data the revenue fit saw and
\* each chart's coefficients are those of a fit of the arrays as they stand.
C21_InputsUntouched ==
    /\ [][/\ years_hist' = years_hist
          /\ revenue_h' = revenue_h
          /\ expenses_h' = expenses_h
          /\ net_debt_h' = net_debt_h]_vars
    /\ []FitsOfTheArrays

\* C21 is met on a case of its own: all four charts drawn from revenue other
\* than the base series, with a revenue trend and a correlation.
C21_AllChartsDrawn ==
    /\ pc = "done"
    /\ raised = "none"
    /\ revenue_h[1] # 0
    /\ RSign(slope_r) # 0
    /\ r_re.sg # 0
    /\ RSign(slope_nd) # 0

\* the series invariants: at least 2 points, periods strictly increasing, as
\* many values as periods (the values of the arrays are integers, so finite)
ValidSeries(periods, values) ==
    /\ Len(periods) >= 2
    /\ \A i \in 1..(Len(periods) - 1) : periods[i] < periods[i + 1]
    /\ Len(values) = Len(periods)

\* C22: every series handed to a regression or correlation satisfies the series
\* invariants; a series that breaks one fails with ValidationError before any
\* statistic is computed.
C22_SeriesValidated ==
    (pc # "chart8a" /\ (\/ ~ValidSeries(years_hist, revenue_h)
                        \/ ~ValidSeries(years_hist, expenses_h)
                        \/ ~ValidSeries(years_hist, net_debt_h))) =>
        /\ raised = "ValidationError"
        /\ pc = "crashed"
        /\ RSign(slope_r) = 0 /\ r_r = ZeroSurd /\ rev_proj = <<>>

\* s[a] + ... + s[b]
RECURSIVE SumFromTo(_, _, _)
SumFromTo(s, a, b) == IF a > b THEN 0 ELSE s[b] + SumFromTo(s, a, b - 1)

\* chart 1 has been drawn
Ran1 == pc \in {"chart4d", "chart6b", "drawn"}

\* C23: in the net debt bridge every intermediate bar starts at the opening net
\* debt plus the sum of the intermediate items before it, and after the last
\* intermediate item the running total equals the closing value shown as the
\* final bar.
C23_BridgeReconciles ==
    /\ Ran1 => \A i \in 2..(Len(vals) - 1) :
                   bottoms[i] = vals[1] + SumFromTo(vals, 2, i - 1)
    /\ pc = "chart4d" => running = vals[Len(vals)]

\* chart 6b has been drawn
Ran6b == pc = "drawn"

\* the percentage change of a row with a positive 2023 value
ActualChange(row) ==
    RDiv(RMul(RInt(Percent), RSub(RInt(row.y2024), RInt(row.y2023))), RInt(row.y2023))

\* C24: in the investment chart an item is labelled '+NEW' if and only if its
\* 2023 value is not positive; an item with a positive 2023 value is labelled
\* with its actual percentage change, whatever that change is.
C24_NewOnlyWithoutBase ==
    Ran6b => \A i \in 1..Len(inv_plot) :
                /\ label_p[i].text = "+NEW" <=> inv_plot[i].y2023 <= 0
                /\ inv_plot[i].y2023 > 0 => REq(label_p[i].v, ActualChange(inv_plot[i]))

\* the sum of the positive entries among the first n of s
RECURSIVE SumPositive(_, _)
SumPositive(s, n) ==
    IF n = 0 THEN 0 ELSE SumPositive(s, n - 1) + (IF s[n] > 0 THEN s[n] ELSE 0)

\* chart 4d has been drawn
Ran4d == pc \in {"chart6b", "drawn"}

\* liability components, then the financial assets as the one negative entry
LiabilitiesThenAssets(v) ==
    /\ \A i \in 1..(Len(v) - 1) : v[i] > 0
    /\ Last(v) < 0

\* C25: in the composition of net debt the running total takes only the
\* positive (liability) components: every bar stands on the sum of the positive
\* components before it, so the negative financial-assets bar, placed last,
\* stands on the sum of all liability components; on the script's data that sum
\* less the financial assets is the net debt nd_24 of the reference line.
C25_LiabilitiesOnlyRunningTotal ==
    Ran4d =>
        /\ running = SumPositive(vals_nd, Len(vals_nd))
        /\ \A i \in 1..Len(vals_nd) : bottoms_nd[i] = SumPositive(vals_nd, i - 1)
        /\ LiabilitiesThenAssets(vals_nd) =>
              /\ bottoms_nd[Len(vals_nd)] = SumFromTo(vals_nd, 1, Len(vals_nd) - 1)
              /\ running = SumFromTo(vals_nd, 1, Len(vals_nd) - 1)
        /\ vals_nd = ValsNd => running + Last(vals_nd) = Nd24

\* C25 is met on a case of its own: the chart drawn from the script's four
\* liability components and its financial assets.
C25_ScriptCompositionDrawn ==
    /\ Ran4d
    /\ vals_nd = ValsNd
    /\ LiabilitiesThenAssets(vals_nd)
    /\ bottoms_nd = <<0, 8880, 13810, 21701, 28230>>
    /\ running = 28230

=============================================================================
